---- MODULE Spec2Model ----
(***************************************************************************)
(* State-machine model of create_manifest.py: the builder of IIIF          *)
(* Presentation manifests (versions 2 and 3) from an item table and a      *)
(* media table, the image-size lookup get_image_info, and the command-line *)
(* driver main that builds and writes one manifest per version.            *)
(*                                                                         *)
(* A URL is the sequence of the chunks of its text after the host.  The    *)
(* chunks are chosen so that the text "/info.json" occurs in a URL only as *)
(* a whole chunk, which makes str.split on that separator a search for the *)
(* chunk.                                                                  *)
(***************************************************************************)
EXTENDS Integers, Sequences, FiniteSets, TLC

(* ------------------------------ bounds -------------------------------- *)

MaxItems == 1

MaxMedia == 2

MaxUrlLen == 3

(* --------------------------- program constants ------------------------ *)

DefaultSize == 1000

Host == "https://example.org"

InfoJson == "/info.json"

ContextV2 == "http://iiif.io/api/presentation/2/context.json"

ContextV3 == "http://iiif.io/api/presentation/3/context.json"

MainVersions == <<"2", "3">>

(* ------------------------------ inputs -------------------------------- *)

TargetId == "X"

FieldIds == {"X", "Y"}

Titles == {"Sample"}

FieldTypes == {"iiif", "image"}

Chunks == {"/img", InfoJson}

SeqsUpTo(S, n) == UNION {[1..k -> S] : k \in 0..n}

AllUrls == SeqsUpTo(Chunks, MaxUrlLen) \ {<<>>}

SampleUrls == {<<"/img", InfoJson>>, <<"/img">>}

CallVersions == {"2", "3", "4"}

ItemRows == [field_id : FieldIds, title : Titles]

MediaRows(urls) == [field_id : FieldIds, field_type : FieldTypes, field_url : urls]

\* What requests.get can meet: no connection, or a response with a status
\* and a body that is no JSON, a JSON value that is no object, or a JSON
\* object with any of width and height.
InfoObjects == UNION {[K -> {640}] : K \in SUBSET {"width", "height"}}

Bodies ==
    {[kind |-> "text"], [kind |-> "array"]}
    \cup {[kind |-> "object", info |-> d] : d \in InfoObjects}

Responses ==
    {[kind |-> "ConnectionError"]}
    \cup {[kind |-> "response", status |-> 404, body |-> [kind |-> "text"]]}
    \cup {[kind |-> "response", status |-> 200, body |-> b] : b \in Bodies}

None == [none |-> TRUE]

(* ------------------------------ state --------------------------------- *)

VARIABLES
    item_df,      \* the item table, a sequence of rows
    media_df,     \* the media table, a sequence of rows
    entry,        \* "main": the command-line run; "call": create_manifest called directly
    pc,           \* position of the run
    todo,         \* versions main has still to process
    version,      \* the version being built
    manifest,     \* the manifest under construction
    idx,          \* number of media rows the loop has finished
    size,         \* <<width, height>> of the current row
    response,     \* what the fetch of get_image_info met for the current row
    canvas,       \* the canvas built last
    events,       \* trace of the current build: fetches and appends
    network,      \* every URL fetched during the run
    dirs,         \* versions whose output directory exists
    files,        \* version -> content of its manifest.json
    error,        \* the exception raised
    exit_code     \* exit status of main

vars == <<item_df, media_df, entry, pc, todo, version, manifest, idx, size,
          response, canvas, events, network, dirs, files, error, exit_code>>

(* ------------------------- get_image_info ----------------------------- *)

\* dict.get(key, default)
Get(d, key, default) == IF key \in DOMAIN d THEN d[key] ELSE default

\* get_image_info falling back to both defaults as soon as one field is
\* missing.
get_image_info_joint(resp) ==
    IF resp.kind # "response" THEN <<DefaultSize, DefaultSize>>
    ELSE IF resp.status >= 400 THEN <<DefaultSize, DefaultSize>>
    ELSE IF resp.body.kind # "object" THEN <<DefaultSize, DefaultSize>>
    ELSE IF DOMAIN resp.body.info # {"width", "height"} THEN <<DefaultSize, DefaultSize>>
    ELSE <<resp.body.info["width"], resp.body.info["height"]>>

\* The pair get_image_info returns when the fetch meets resp.  Every raise
\* inside the try block lands in the except clause, which returns the
\* defaults.
get_image_info(resp) ==
    IF resp.kind # "response"
        THEN <<DefaultSize, DefaultSize>>          \* requests.get raises
    ELSE IF resp.status >= 400
        THEN <<DefaultSize, DefaultSize>>          \* raise_for_status raises
    ELSE IF resp.body.kind = "text"
        THEN <<DefaultSize, DefaultSize>>          \* response.json raises
    ELSE IF resp.body.kind # "object"
        THEN <<DefaultSize, DefaultSize>>          \* info.get raises
    ELSE <<Get(resp.body.info, "width", DefaultSize),
           Get(resp.body.info, "height", DefaultSize)>>

(* ------------------------- create_manifest ---------------------------- *)

\* df[df['field_id'] == field_id]: the matching rows in table order, each
\* keeping the index label it has in df (read_csv labels rows 0, 1, ...).
RECURSIVE FilterFrom(_, _, _)
FilterFrom(df, id, i) ==
    IF i > Len(df) THEN <<>>
    ELSE (IF df[i].field_id = id THEN <<[index |-> i - 1, row |-> df[i]]>> ELSE <<>>)
         \o FilterFrom(df, id, i + 1)

Filter(df, id) == FilterFrom(df, id, 1)

\* item_df tested for emptiness without the filter on field_id.
item_data_unfiltered == [i \in 1..Len(item_df) |-> [index |-> i - 1, row |-> item_df[i]]]

item_data == Filter(item_df, TargetId)

media_items == Filter(media_df, TargetId)

\* url.rsplit('/info.json', 1)[0]: url cut before the last occurrence.
SplitLast(url) ==
    LET hits == {i \in 1..Len(url) : url[i] = InfoJson}
    IN  IF hits = {} THEN url
        ELSE SubSeq(url, 1, (CHOOSE i \in hits : \A j \in hits : i >= j) - 1)

\* url.split('/info.json')[0]: the part of url before the first occurrence
\* of the separator, the whole url when it has none.
SplitFirst(url) ==
    LET hits == {i \in 1..Len(url) : url[i] = InfoJson}
    IN  IF hits = {} THEN url
        ELSE SubSeq(url, 1, (CHOOSE i \in hits : \A j \in hits : i <= j) - 1)

Prefix(v) == Host \o "/iiif/" \o v \o "/" \o TargetId

CanvasId(v, index) == Prefix(v) \o "/canvas/p" \o ToString(index + 1)

ServiceType(v) == IF v = "3" THEN "ImageService3" ELSE "ImageService2"

\* The canvas of one media row.
Canvas(v, index, media, sz) ==
    LET base == [id |-> CanvasId(v, index), type |-> "Canvas",
                 height |-> sz[2], width |-> sz[1]]
    IN  IF v = "3"
        THEN base @@ [items |-> <<
               [id |-> Prefix(v) \o "/page/p" \o ToString(index + 1) \o "/1",
                type |-> "AnnotationPage",
                items |-> <<
                  [id |-> Prefix(v) \o "/annotation/p" \o ToString(index + 1) \o "-image",
                   type |-> "Annotation",
                   motivation |-> "painting",
                   body |-> [id |-> media.field_url,
                             type |-> "Image",
                             format |-> "image/jpeg",
                             service |-> <<[id |-> SplitFirst(media.field_url),
                                            type |-> ServiceType(v),
                                            profile |-> "level2"]>>],
                   target |-> CanvasId(v, index)]>>]>>]
        ELSE base @@ [images |-> <<
               ("@type" :> "oa:Annotation") @@
               [motivation |-> "sc:painting",
                resource |-> ("@id" :> media.field_url) @@
                             ("@type" :> "dctypes:Image") @@
                             [format |-> "image/jpeg",
                              service |-> ("@context" :> "http://iiif.io/api/image/2/context.json") @@
                                          ("@id" :> SplitFirst(media.field_url)) @@
                                          [profile |-> "http://iiif.io/api/image/2/level2.json"]],
                on |-> CanvasId(v, index)]>>]

\* A manifest that keeps an items key in every version.
NewManifestBothKeys(v, item) ==
    LET base == ("@context" :> (IF v = "3" THEN ContextV3 ELSE ContextV2)) @@
                [id |-> Prefix(v) \o "/manifest.json",
                 type |-> "Manifest",
                 label |-> IF v = "3"
                           THEN [ja |-> <<item.title>>]
                           ELSE ("@value" :> item.title) @@ ("@language" :> "ja"),
                 items |-> <<>>]
    IN  IF v = "3" THEN base
        ELSE IF v = "2"
             THEN base @@ [sequences |-> <<("@type" :> "sc:Sequence") @@ [canvases |-> <<>>]>>]
             ELSE base @@ [sequences |-> <<>>]

\* A manifest whose sequence is made for every version other than "3".
NewManifestAnySequence(v, item) ==
    LET base == ("@context" :> (IF v = "3" THEN ContextV3 ELSE ContextV2)) @@
                [id |-> Prefix(v) \o "/manifest.json",
                 type |-> "Manifest",
                 label |-> IF v = "3"
                           THEN [ja |-> <<item.title>>]
                           ELSE ("@value" :> item.title) @@ ("@language" :> "ja")]
    IN  IF v = "3" THEN base @@ [items |-> <<>>]
        ELSE base @@ [sequences |-> <<("@type" :> "sc:Sequence") @@ [canvases |-> <<>>]>>]

\* The manifest before the loop over the media rows.
NewManifest(v, item) ==
    LET base == ("@context" :> (IF v = "3" THEN ContextV3 ELSE ContextV2)) @@
                [id |-> Prefix(v) \o "/manifest.json",
                 type |-> "Manifest",
                 label |-> IF v = "3"
                           THEN [ja |-> <<item.title>>]
                           ELSE ("@value" :> item.title) @@ ("@language" :> "ja")]
    IN  IF v = "3" THEN base @@ [items |-> <<>>]
        ELSE IF v = "2"
             THEN base @@ [sequences |-> <<("@type" :> "sc:Sequence") @@ [canvases |-> <<>>]>>]
             ELSE base @@ [sequences |-> <<>>]

\* manifest["sequences"][0] raises IndexError on an empty list.
CanAppend(v, m) == IF v = "3" THEN TRUE ELSE Len(m["sequences"]) > 0

\* The canvas inserted at the front of the canvas sequence.
AppendToFront(v, m, c) ==
    IF v = "3" THEN [m EXCEPT !["items"] = <<c>> \o @]
    ELSE [m EXCEPT !["sequences"][1]["canvases"] = <<c>> \o @]

AppendTo(v, m, c) ==
    IF v = "3" THEN [m EXCEPT !["items"] = Append(@, c)]
    ELSE [m EXCEPT !["sequences"][1]["canvases"] = Append(@, c)]

(* ------------------------------ Init ---------------------------------- *)

InitWith(urls, maxMedia) ==
    /\ item_df \in SeqsUpTo(ItemRows, MaxItems)
    /\ media_df \in SeqsUpTo(MediaRows(urls), maxMedia)
    /\ \/ entry = "main" /\ pc = "main" /\ version = "" /\ todo = MainVersions
       \/ entry = "call" /\ pc = "create" /\ version \in CallVersions /\ todo = <<>>
    /\ manifest = None
    /\ idx = 0
    /\ size = <<>>
    /\ response = None
    /\ canvas = None
    /\ events = <<>>
    /\ network = <<>>
    /\ dirs = {}
    /\ files = [v \in {"2", "3"} |-> None]
    /\ error = None
    /\ exit_code = <<>>

Init == InitWith(SampleUrls, MaxMedia)

InitUrl == InitWith(AllUrls, 1)

(* ----------------------------- actions -------------------------------- *)

\* The exception caught inside the loop over the versions: main goes on
\* with the next version.
RaiseAndContinue(exc) ==
    /\ error' = exc
    /\ UNCHANGED exit_code
    /\ pc' = IF entry = "main" THEN "loop" ELSE "raised"

\* An exception leaves create_manifest; main catches it (ValueError or any
\* other Exception), prints and exits with 1.
Raise(exc) ==
    /\ error' = exc
    /\ IF entry = "main"
       THEN pc' = "exit" /\ exit_code' = <<1>>
       ELSE pc' = "raised" /\ UNCHANGED exit_code

load_data ==
    /\ pc = "main"
    /\ pc' = "loop"
    /\ UNCHANGED <<item_df, media_df, entry, todo, version, manifest, idx, size,
                   response, canvas, events, network, dirs, files, error, exit_code>>

load_data_fails ==
    /\ pc = "main"
    /\ Raise([type |-> "FileNotFoundError", msg |-> "csv"])
    /\ UNCHANGED <<item_df, media_df, entry, todo, version, manifest, idx, size,
                   response, canvas, events, network, dirs, files>>

\* for version in ["2", "3"]: manifest = create_manifest(...)
next_version ==
    /\ pc = "loop"
    /\ todo # <<>>
    /\ version' = Head(todo)
    /\ todo' = Tail(todo)
    /\ pc' = "create"
    /\ manifest' = None
    /\ idx' = 0
    /\ size' = <<>>
    /\ response' = None
    /\ canvas' = None
    /\ events' = <<>>
    /\ UNCHANGED <<item_df, media_df, entry, network, dirs, files, error, exit_code>>

main_done ==
    /\ pc = "loop"
    /\ todo = <<>>
    /\ pc' = "exit"
    /\ exit_code' = <<0>>
    /\ UNCHANGED <<item_df, media_df, entry, todo, version, manifest, idx, size,
                   response, canvas, events, network, dirs, files, error>>

item_not_found ==
    /\ pc = "create"
    /\ item_data = <<>>
    /\ Raise([type |-> "ValueError", msg |-> "item"])
    /\ UNCHANGED <<item_df, media_df, entry, todo, version, manifest, idx, size,
                   response, canvas, events, network, dirs, files>>

\* The missing media rows reported with the error of the missing item.
media_not_found_as_item ==
    /\ pc = "create"
    /\ item_data # <<>>
    /\ media_items = <<>>
    /\ Raise([type |-> "ValueError", msg |-> "item"])
    /\ UNCHANGED <<item_df, media_df, entry, todo, version, manifest, idx, size,
                   response, canvas, events, network, dirs, files>>

media_not_found ==
    /\ pc = "create"
    /\ item_data # <<>>
    /\ media_items = <<>>
    /\ Raise([type |-> "ValueError", msg |-> "media"])
    /\ UNCHANGED <<item_df, media_df, entry, todo, version, manifest, idx, size,
                   response, canvas, events, network, dirs, files>>

new_manifest ==
    /\ pc = "create"
    /\ item_data # <<>>
    /\ media_items # <<>>
    /\ manifest' = NewManifest(version, item_data[1].row)
    /\ pc' = "rows"
    /\ UNCHANGED <<item_df, media_df, entry, todo, version, idx, size,
                   response, canvas, events, network, dirs, files, error, exit_code>>

\* get_image_info called for a row of any type.
row_any_type ==
    /\ pc = "rows"
    /\ idx < Len(media_items)
    /\ LET media == media_items[idx + 1].row
       IN  /\ \E resp \in Responses :
                /\ response' = resp
                /\ size' = get_image_info(resp)
           /\ events' = Append(events, [ev |-> "get_image_info", url |-> media.field_url])
           /\ network' = Append(network, media.field_url)
    /\ pc' = "canvas"
    /\ UNCHANGED <<item_df, media_df, entry, todo, version, manifest, idx,
                   canvas, dirs, files, error, exit_code>>

\* A row of type iiif: the size comes from get_image_info.
row_iiif ==
    /\ pc = "rows"
    /\ idx < Len(media_items)
    /\ LET media == media_items[idx + 1].row
       IN  /\ media.field_type = "iiif"
           /\ \E resp \in Responses :
                /\ response' = resp
                /\ size' = get_image_info(resp)
           /\ events' = Append(events, [ev |-> "get_image_info", url |-> media.field_url])
           /\ network' = Append(network, media.field_url)
    /\ pc' = "canvas"
    /\ UNCHANGED <<item_df, media_df, entry, todo, version, manifest, idx,
                   canvas, dirs, files, error, exit_code>>

\* A row of any other type keeps the default size.
row_other ==
    /\ pc = "rows"
    /\ idx < Len(media_items)
    /\ media_items[idx + 1].row.field_type # "iiif"
    /\ size' = <<DefaultSize, DefaultSize>>
    /\ response' = None
    /\ pc' = "canvas"
    /\ UNCHANGED <<item_df, media_df, entry, todo, version, manifest, idx,
                   canvas, events, network, dirs, files, error, exit_code>>

append_canvas ==
    /\ pc = "canvas"
    /\ CanAppend(version, manifest)
    /\ LET m == media_items[idx + 1]
           c == Canvas(version, m.index, m.row, size)
       IN  /\ canvas' = c
           /\ manifest' = AppendTo(version, manifest, c)
           /\ events' = Append(events, [ev |-> "append", url |-> m.row.field_url])
    /\ idx' = idx + 1
    /\ response' = None
    /\ pc' = "rows"
    /\ UNCHANGED <<item_df, media_df, entry, todo, version, size,
                   network, dirs, files, error, exit_code>>

append_fails ==
    /\ pc = "canvas"
    /\ ~CanAppend(version, manifest)
    /\ LET m == media_items[idx + 1]
       IN  canvas' = Canvas(version, m.index, m.row, size)
    /\ Raise([type |-> "IndexError", msg |-> "sequences"])
    /\ UNCHANGED <<item_df, media_df, entry, todo, version, manifest, idx, size,
                   response, events, network, dirs, files>>

return_manifest ==
    /\ pc = "rows"
    /\ idx = Len(media_items)
    /\ pc' = IF entry = "main" THEN "mkdir" ELSE "returned"
    /\ UNCHANGED <<item_df, media_df, entry, todo, version, manifest, idx, size,
                   response, canvas, events, network, dirs, files, error, exit_code>>

mkdir ==
    /\ pc = "mkdir"
    /\ dirs' = dirs \cup {version}
    /\ pc' = "open"
    /\ UNCHANGED <<item_df, media_df, entry, todo, version, manifest, idx, size,
                   response, canvas, events, network, files, error, exit_code>>

mkdir_fails ==
    /\ pc = "mkdir"
    /\ Raise([type |-> "OSError", msg |-> "mkdir"])
    /\ UNCHANGED <<item_df, media_df, entry, todo, version, manifest, idx, size,
                   response, canvas, events, network, dirs, files>>

\* open(output_path, 'w') creates the file or empties it.
open_file ==
    /\ pc = "open"
    /\ files' = [files EXCEPT ![version] = [open |-> TRUE, data |-> None]]
    /\ pc' = "dump"
    /\ UNCHANGED <<item_df, media_df, entry, todo, version, manifest, idx, size,
                   response, canvas, events, network, dirs, error, exit_code>>

open_fails ==
    /\ pc = "open"
    /\ Raise([type |-> "OSError", msg |-> "open"])
    /\ UNCHANGED <<item_df, media_df, entry, todo, version, manifest, idx, size,
                   response, canvas, events, network, dirs, files>>

\* json.dump of the manifest, and the file is closed.
dump ==
    /\ pc = "dump"
    /\ files' = [files EXCEPT ![version] = [open |-> FALSE, data |-> manifest]]
    /\ pc' = "loop"
    /\ UNCHANGED <<item_df, media_df, entry, todo, version, manifest, idx, size,
                   response, canvas, events, network, dirs, error, exit_code>>

Next ==
    \/ load_data
    \/ load_data_fails
    \/ next_version
    \/ main_done
    \/ item_not_found
    \/ media_not_found
    \/ new_manifest
    \/ row_iiif
    \/ row_other
    \/ append_canvas
    \/ append_fails
    \/ return_manifest
    \/ mkdir
    \/ mkdir_fails
    \/ open_file
    \/ open_fails
    \/ dump

Spec == Init /\ [][Next]_vars

SpecUrl == InitUrl /\ [][Next]_vars

(* ---------------------- reading a manifest ---------------------------- *)

ValidVersion == version \in {"2", "3"}

\* create_manifest has returned its manifest to the caller.
Returned == pc = "returned" \/ (entry = "main" /\ pc \in {"mkdir", "open", "dump"})

\* The canvas sequence of a manifest of version v.
Canvases(m, v) == IF v = "3" THEN m["items"] ELSE m["sequences"][1]["canvases"]

\* The id of the image resource of a canvas.
ResourceId(c, v) ==
    IF v = "3" THEN c["items"][1]["items"][1]["body"]["id"]
    ELSE c["images"][1]["resource"]["@id"]

\* The id of the image service of a canvas.
ServiceId(c, v) ==
    IF v = "3" THEN c["items"][1]["items"][1]["body"]["service"][1]["id"]
    ELSE c["images"][1]["resource"]["service"]["@id"]

HasItemRow == \E i \in DOMAIN item_df : item_df[i].field_id = TargetId

HasMediaRow == \E i \in DOMAIN media_df : media_df[i].field_id = TargetId

\* The media rows of TargetId in table order.
MatchingRows == SelectSeq(media_df, LAMBDA r : r.field_id = TargetId)

(* ------------------------------ claims -------------------------------- *)

\* C1: when create_manifest returns for version "2" or "3", the canvas
\* sequence has exactly one canvas per media row of the field_id, and the
\* k-th canvas carries the field_url of the k-th such row as the id of its
\* image resource.
C1_CanvasPerMediaRow ==
    (Returned /\ ValidVersion) =>
        LET cs == Canvases(manifest, version)
        IN  /\ Len(cs) = Len(MatchingRows)
            /\ Len(cs) >= 1
            /\ \A k \in 1..Len(cs) : ResourceId(cs[k], version) = MatchingRows[k].field_url

C1_Witness ==
    /\ pc = "returned"
    /\ version = "3"
    /\ Len(MatchingRows) = 2
    /\ MatchingRows[1].field_url # MatchingRows[2].field_url
    /\ Len(manifest["items"]) = 2

\* C2: when create_manifest returns, the n-th canvas has the id
\* {host}/iiif/{version}/{field_id}/canvas/p{n}, whatever other rows the
\* media table holds.
C2_CanvasIdsByPosition ==
    (Returned /\ ValidVersion) =>
        LET cs == Canvases(manifest, version)
        IN  \A n \in 1..Len(cs) :
                cs[n]["id"] = Host \o "/iiif/" \o version \o "/" \o TargetId
                              \o "/canvas/p" \o ToString(n)

\* C3: get_image_info always returns a pair and never raises: it returns
\* (1000, 1000) when the fetch fails (no connection, an error status, a body
\* that is no JSON or no JSON object) and when the JSON object has neither
\* width nor height; when the object has only one of them, that one is
\* returned and the other alone is 1000.
C3_ImageInfoFallback ==
    (pc = "canvas" /\ response # None) =>
        /\ error = None
        /\ Len(size) = 2
        /\ (response.kind = "ConnectionError") => size = <<1000, 1000>>
        /\ (response.kind = "response") =>
              /\ (response.status # 200) => size = <<1000, 1000>>
              /\ (response.status = 200 /\ response.body.kind # "object") => size = <<1000, 1000>>
              /\ (response.status = 200 /\ response.body.kind = "object") =>
                    LET info == response.body.info
                    IN  /\ size[1] = IF "width" \in DOMAIN info THEN info["width"] ELSE 1000
                        /\ size[2] = IF "height" \in DOMAIN info THEN info["height"] ELSE 1000

C3_Witness ==
    /\ pc = "canvas"
    /\ response # None
    /\ response.kind = "response"
    /\ response.status = 200
    /\ response.body.kind = "object"
    /\ DOMAIN response.body.info = {"width"}
    /\ size = <<640, 1000>>

\* C4: in a run of main for a field_id without a row in the item table,
\* get_image_info is never called and no output directory or manifest file
\* is created; the build of version "2" fails, version "3" is never
\* started, and the run exits with code 1.
C4_NoItemFailsFirst ==
    (entry = "main" /\ ~HasItemRow) =>
        /\ network = <<>>
        /\ events = <<>>
        /\ dirs = {}
        /\ \A v \in DOMAIN files : files[v] = None
        /\ manifest = None
        /\ pc \in {"main", "loop", "create", "exit"}
        /\ version \in {"", "2"}
        /\ (pc = "exit") => exit_code = <<1>>

C4_Witness ==
    /\ entry = "main"
    /\ ~HasItemRow
    /\ HasMediaRow
    /\ pc = "exit"
    /\ version = "2"
    /\ error = [type |-> "ValueError", msg |-> "item"]

\* A file holds a whole manifest of version v: one canvas per media row.
CompleteFile(v) ==
    /\ files[v] # None
    /\ files[v].open = FALSE
    /\ files[v].data # None
    /\ Len(Canvases(files[v].data, v)) = Len(MatchingRows)

RECURSIVE ExpectedEvents(_)
ExpectedEvents(k) ==
    IF k = 0 THEN <<>>
    ELSE ExpectedEvents(k - 1)
         \o (IF MatchingRows[k].field_type = "iiif"
             THEN <<[ev |-> "get_image_info", url |-> MatchingRows[k].field_url]>>
             ELSE <<>>)
         \o <<[ev |-> "append", url |-> MatchingRows[k].field_url]>>

\* C6: during a build, get_image_info is called once for each media row of
\* type iiif, with the row's field_url, and for no other row; the calls and
\* the appends of the canvases alternate in media-row order, the call of a
\* row coming before the append of its canvas and after the append of the
\* row before it; a row of another type gets width = height = 1000.
C6_OneFetchPerIiifRow ==
    (pc \in {"rows", "canvas"} \/ Returned) =>
        /\ events =
              ExpectedEvents(idx)
              \o (IF pc = "canvas" /\ MatchingRows[idx + 1].field_type = "iiif"
                  THEN <<[ev |-> "get_image_info", url |-> MatchingRows[idx + 1].field_url]>>
                  ELSE <<>>)
        /\ Returned => idx = Len(MatchingRows)
        /\ ValidVersion =>
              \A k \in 1..idx :
                  MatchingRows[k].field_type # "iiif" =>
                      /\ Canvases(manifest, version)[k]["width"] = 1000
                      /\ Canvases(manifest, version)[k]["height"] = 1000

C6_Witness ==
    /\ pc = "returned"
    /\ version = "2"
    /\ Len(MatchingRows) = 2
    /\ MatchingRows[1].field_type = "iiif"
    /\ MatchingRows[2].field_type = "image"
    /\ Len(events) = 3
    /\ manifest["sequences"][1]["canvases"][1]["width"] = 640

\* C7: in a run of main for a field_id with an item row and no media row,
\* the build fails with an error that differs from the error of the
\* missing-item case, the run exits with code 1 and no manifest file is
\* written for either version.
C7_NoMediaDistinctError ==
    (entry = "main" /\ HasItemRow /\ ~HasMediaRow) =>
        /\ \A v \in DOMAIN files : files[v] = None
        /\ pc \in {"main", "loop", "create", "exit"}
        /\ (pc = "exit") => exit_code = <<1>>
        /\ (pc = "exit" /\ version # "") =>
              /\ error # None
              /\ error # [type |-> "ValueError", msg |-> "item"]
              /\ error = [type |-> "ValueError", msg |-> "media"]

C7_Witness ==
    /\ entry = "main"
    /\ HasItemRow
    /\ ~HasMediaRow
    /\ Len(media_df) > 0
    /\ pc = "exit"
    /\ version = "2"
    /\ exit_code = <<1>>

\* The number of canvases the build has appended so far.
Appended == Len(SelectSeq(events, LAMBDA e : e.ev = "append"))

\* C8: from its construction to its return, a manifest of version "2" has
\* exactly one sequence, of type sc:Sequence, whose canvases are exactly
\* the canvases appended so far, and has no top-level items key; a
\* manifest of version "3" holds exactly the canvases appended so far in
\* its top-level items and has no sequences key.
C8_CanvasContainer ==
    (manifest # None /\ ValidVersion) =>
        IF version = "2"
        THEN /\ "sequences" \in DOMAIN manifest
             /\ "items" \notin DOMAIN manifest
             /\ Len(manifest["sequences"]) = 1
             /\ manifest["sequences"][1]["@type"] = "sc:Sequence"
             /\ Len(manifest["sequences"][1]["canvases"]) = Appended
             /\ \A k \in 1..Appended :
                   /\ manifest["sequences"][1]["canvases"][k]["type"] = "Canvas"
                   /\ ResourceId(manifest["sequences"][1]["canvases"][k], "2")
                        = MatchingRows[k].field_url
             /\ (canvas # None) => manifest["sequences"][1]["canvases"][Appended] = canvas
        ELSE /\ "items" \in DOMAIN manifest
             /\ "sequences" \notin DOMAIN manifest
             /\ Len(manifest["items"]) = Appended
             /\ \A k \in 1..Appended :
                   /\ manifest["items"][k]["type"] = "Canvas"
                   /\ ResourceId(manifest["items"][k], "3") = MatchingRows[k].field_url
             /\ (canvas # None) => manifest["items"][Appended] = canvas

C8_Witness ==
    /\ Returned
    /\ version = "2"
    /\ Len(manifest["sequences"]) = 1
    /\ Len(manifest["sequences"][1]["canvases"]) = 2

\* url with a trailing "/info.json" removed, url itself when it does not
\* end in "/info.json".
StripSuffix(url) ==
    IF Len(url) > 0 /\ url[Len(url)] = InfoJson THEN SubSeq(url, 1, Len(url) - 1) ELSE url

\* C9 as stated: the image-service id of every canvas is the row's
\* field_url with a trailing "/info.json" removed, and the field_url
\* unchanged when it does not end in "/info.json"; the image resource id is
\* the field_url.
C9_TrailingSuffixStripped ==
    (Returned /\ ValidVersion) =>
        LET cs == Canvases(manifest, version)
        IN  \A k \in 1..Len(cs) :
                /\ ServiceId(cs[k], version) = StripSuffix(MatchingRows[k].field_url)
                /\ ResourceId(cs[k], version) = MatchingRows[k].field_url

\* s is url cut before its first "/info.json": a prefix of url without any
\* "/info.json" that is the whole url or is followed by "/info.json".
CutAtFirst(s, url) ==
    /\ Len(s) <= Len(url)
    /\ \A i \in 1..Len(s) : s[i] = url[i] /\ s[i] # InfoJson
    /\ Len(s) < Len(url) => url[Len(s) + 1] = InfoJson

\* C9 amended: the image-service id of every canvas is the part of the
\* row's field_url before the first occurrence of "/info.json": the
\* field_url unchanged when "/info.json" does not occur in it, and the
\* field_url with the trailing "/info.json" removed when its only
\* occurrence is at the end; the image resource id is the field_url.
C9_CutAtFirstInfoJson ==
    (Returned /\ ValidVersion) =>
        LET cs == Canvases(manifest, version)
        IN  \A k \in 1..Len(cs) :
                LET url == MatchingRows[k].field_url
                    occurs == {i \in 1..Len(url) : url[i] = InfoJson}
                IN  /\ CutAtFirst(ServiceId(cs[k], version), url)
                    /\ occurs = {} => ServiceId(cs[k], version) = url
                    /\ occurs = {Len(url)} => ServiceId(cs[k], version) = StripSuffix(url)
                    /\ ResourceId(cs[k], version) = url

C9_Witness ==
    /\ Returned
    /\ version = "3"
    /\ Len(MatchingRows) = 1
    /\ MatchingRows[1].field_url = <<"/img", InfoJson, InfoJson>>
    /\ ServiceId(manifest["items"][1], "3") = <<"/img">>

\* C10: create_manifest called with a version other than "2" and "3", for
\* a field_id with an item row and a media row, never returns: its
\* manifest has the version 2 context and an empty sequences list, so the
\* append of the first canvas, which has the version 2 shape, raises an
\* IndexError, after the call of get_image_info for the first row when
\* that row is of type iiif.
C10_OtherVersionFails ==
    (entry = "call" /\ ~ValidVersion /\ HasItemRow /\ HasMediaRow) =>
        /\ pc \in {"create", "rows", "canvas", "raised"}
        /\ idx = 0
        /\ (manifest # None) =>
              /\ manifest["@context"] = "http://iiif.io/api/presentation/2/context.json"
              /\ "items" \notin DOMAIN manifest
              /\ manifest["sequences"] = <<>>
        /\ (pc = "raised") =>
              /\ error = [type |-> "IndexError", msg |-> "sequences"]
              /\ manifest # None
              /\ canvas # None
              /\ "images" \in DOMAIN canvas
              /\ "items" \notin DOMAIN canvas
              /\ events = IF MatchingRows[1].field_type = "iiif"
                          THEN <<[ev |-> "get_image_info", url |-> MatchingRows[1].field_url]>>
                          ELSE <<>>

C10_Witness ==
    /\ entry = "call"
    /\ version = "4"
    /\ pc = "raised"
    /\ error = [type |-> "IndexError", msg |-> "sequences"]
    /\ MatchingRows[1].field_type = "iiif"
    /\ network = <<MatchingRows[1].field_url>>

====
